---------------------------- MODULE Spec2Model ----------------------------
(***************************************************************************)
(* A model of saori-resized-png-mini: the trial-decode dispatcher and the  *)
(* resize pipeline (src/src/resized_png.rs), the output-size negotiation   *)
(* (output_size) and the PNG sample expansion / RGBA composition           *)
(* (src/src/image/png.rs).                                                 *)
(*                                                                         *)
(* Machine integers wider than TLC's own are kept as little-endian         *)
(* sequences of 15-bit limbs ("Big"), so that i64 commands, u32 sizes and  *)
(* f64 mantissas keep their width.                                         *)
(***************************************************************************)
EXTENDS Integers, Sequences, FiniteSets, TLC

VARIABLES
    width_command,    \* output_size: argument, i64 as [neg, mag]
    height_command,   \* output_size: argument, i64 as [neg, mag]
    input_width,      \* output_size: argument, NonZeroU32 as Big
    input_height,     \* output_size: argument, NonZeroU32 as Big
    size_temp,        \* output_size: width_temp and height_temp
    size_result,      \* output_size: its return value, once called
    src,              \* the file at src_path: what each decoder makes of it
    dist,             \* the file at dist_path
    call,             \* the last call of get_image_type / to_resized_png
    png_info,         \* buf_to_rgba: the png::Info it is given
    png_buf,          \* buf_to_rgba: raw_bytes
    png_out           \* buf_to_rgba and its readers: their results

size_vars == <<width_command, height_command, input_width, input_height,
               size_temp, size_result>>
pipe_vars == <<src, dist, call>>
png_vars == <<png_info, png_buf, png_out>>
vars == <<size_vars, pipe_vars, png_vars>>

---------------------------------------------------------------------------
(* Unsigned integers of arbitrary width: <<>> is 0, limb 1 is the least    *)
(* significant, the top limb is never 0.                                   *)

Radix == 2^15

RECURSIVE Big(_)
Big(n) == IF n = 0 THEN <<>> ELSE <<n % Radix>> \o Big(n \div Radix)

RECURSIVE Trim(_)
Trim(a) ==
    IF a = <<>> THEN a
    ELSE IF a[Len(a)] = 0 THEN Trim(SubSeq(a, 1, Len(a) - 1)) ELSE a

Limb(a, i) == IF i <= Len(a) THEN a[i] ELSE 0
Rest(a) == IF a = <<>> THEN <<>> ELSE Tail(a)

RECURSIVE AddC(_, _, _)
AddC(a, b, c) ==
    IF a = <<>> /\ b = <<>> THEN (IF c = 0 THEN <<>> ELSE <<c>>)
    ELSE LET s == Limb(a, 1) + Limb(b, 1) + c
         IN  <<s % Radix>> \o AddC(Rest(a), Rest(b), s \div Radix)

Add(a, b) == AddC(a, b, 0)

\* a - b for a >= b
RECURSIVE SubB(_, _, _)
SubB(a, b, c) ==
    IF a = <<>> THEN <<>>
    ELSE LET d == a[1] - Limb(b, 1) - c
         IN  IF d < 0 THEN <<d + Radix>> \o SubB(Tail(a), Rest(b), 1)
                      ELSE <<d>> \o SubB(Tail(a), Rest(b), 0)

Sub(a, b) == Trim(SubB(a, b, 0))

\* -1, 0, 1 as a < b, a = b, a > b
RECURSIVE CmpFrom(_, _, _)
CmpFrom(a, b, i) ==
    IF i = 0 THEN 0
    ELSE IF a[i] < b[i] THEN -1
    ELSE IF a[i] > b[i] THEN 1
    ELSE CmpFrom(a, b, i - 1)

Cmp(a, b) ==
    IF Len(a) < Len(b) THEN -1
    ELSE IF Len(a) > Len(b) THEN 1
    ELSE CmpFrom(a, b, Len(a))

\* a * k + c for a limb-sized k
RECURSIVE MulSmallC(_, _, _)
MulSmallC(a, k, c) ==
    IF a = <<>> THEN (IF c = 0 THEN <<>> ELSE <<c>>)
    ELSE LET s == a[1] * k + c
         IN  <<s % Radix>> \o MulSmallC(Tail(a), k, s \div Radix)

MulSmall(a, k) == Trim(MulSmallC(a, k, 0))

RECURSIVE Mul(_, _)
Mul(a, b) ==
    IF b = <<>> \/ a = <<>> THEN <<>>
    ELSE LET hi == Mul(a, Tail(b))
         IN  Add(MulSmall(a, b[1]), IF hi = <<>> THEN <<>> ELSE <<0>> \o hi)

\* floor(a / d) for a limb-sized d, from the top limb down
RECURSIVE DivSmallR(_, _, _, _)
DivSmallR(a, d, i, r) ==
    IF i = 0 THEN <<>>
    ELSE LET t == r * Radix + a[i]
         IN  DivSmallR(a, d, i - 1, t % d) \o <<t \div d>>

DivSmall(a, d) == Trim(DivSmallR(a, d, Len(a), 0))

Double(a) == MulSmall(a, 2)
Odd(a) == a # <<>> /\ a[1] % 2 = 1

Zeros(n) == [i \in 1..n |-> 0]

ShiftLeft(a, k) ==
    IF a = <<>> THEN <<>>
    ELSE Zeros(k \div 15) \o MulSmall(a, 2^(k % 15))

ShiftRight(a, k) ==
    IF k \div 15 >= Len(a) THEN <<>>
    ELSE DivSmall(SubSeq(a, (k \div 15) + 1, Len(a)), 2^(k % 15))

RECURSIVE LimbBits(_)
LimbBits(x) == IF x = 0 THEN 0 ELSE 1 + LimbBits(x \div 2)

BitLen(a) == IF a = <<>> THEN 0 ELSE 15 * (Len(a) - 1) + LimbBits(a[Len(a)])

\* a mod 2^k
LowBits(a, k) == Sub(a, ShiftLeft(ShiftRight(a, k), k))

Pow2(k) == ShiftLeft(<<1>>, k)
One == <<1>>
U32Max == Sub(Pow2(32), One)


---------------------------------------------------------------------------
(* Rust's numeric types as output_size uses them.                          *)
(*   i64: [neg, mag] (sign and magnitude, zero is never negative)          *)
(*   u32 / NonZeroU32: a Big below 2^32                                    *)
(*   f64: [neg, m, e], the value m * 2^e with 2^52 <= m < 2^53, or m = 0   *)
(*        (the values met here are finite and far from the subnormals)     *)

I64(n) == [neg |-> n < 0, mag |-> Big(IF n < 0 THEN -n ELSE n)]
IsNegative(x) == x.neg /\ x.mag # <<>>

\* `u as i64` for a u32: always exact
U32AsI64(u) == [neg |-> FALSE, mag |-> u]

\* `x as u32` for an i64: the low 32 bits of the two's complement
I64AsU32(x) ==
    LET low == LowBits(x.mag, 32)
    IN  IF x.neg /\ low # <<>> THEN Sub(Pow2(32), low) ELSE low

\* n * 2^e rounded to the nearest f64, ties to even
RoundF64(neg, n, e) ==
    LET len == BitLen(n)
    IN  IF n = <<>> THEN [neg |-> neg, m |-> <<>>, e |-> 0]
        ELSE IF len <= 53
        THEN [neg |-> neg, m |-> ShiftLeft(n, 53 - len), e |-> e - (53 - len)]
        ELSE LET k == len - 53
                 q == ShiftRight(n, k)
                 r == LowBits(n, k)
                 c == Cmp(r, Pow2(k - 1))
                 q1 == IF c > 0 \/ (c = 0 /\ Odd(q)) THEN Add(q, One) ELSE q
             IN  IF q1 = Pow2(53)
                 THEN [neg |-> neg, m |-> Pow2(52), e |-> e + k + 1]
                 ELSE [neg |-> neg, m |-> q1, e |-> e + k]

\* `x as f64` for an i64 (rounds above 2^53) and for a u32 (exact)
I64AsF64(x) == RoundF64(x.neg, x.mag, 0)
U32AsF64(u) == RoundF64(FALSE, u, 0)

\* k more bits of the quotient by d, after the bits s.q and the remainder s.r < d
RECURSIVE DivBits(_, _, _)
DivBits(s, d, k) ==
    IF k = 0 THEN s
    ELSE IF Cmp(Double(s.r), d) >= 0
    THEN DivBits([q |-> Add(Double(s.q), One), r |-> Sub(Double(s.r), d)], d, k - 1)
    ELSE DivBits([q |-> Double(s.q), r |-> Double(s.r)], d, k - 1)

\* x / y in f64 (y is never 0 here: it is a NonZeroU32), correctly rounded
F64Div(x, y) ==
    IF x.m = <<>> THEN [neg |-> x.neg # y.neg, m |-> <<>>, e |-> 0]
    ELSE LET ge == Cmp(x.m, y.m) >= 0
             n == IF ge THEN x.m ELSE Double(x.m)
             e0 == x.e - y.e - (IF ge THEN 52 ELSE 53)
             qr == DivBits([q |-> One, r |-> Sub(n, y.m)], y.m, 52)
             c == Cmp(Double(qr.r), y.m)
             q1 == IF c > 0 \/ (c = 0 /\ Odd(qr.q)) THEN Add(qr.q, One) ELSE qr.q
         IN  IF q1 = Pow2(53)
             THEN [neg |-> x.neg # y.neg, m |-> Pow2(52), e |-> e0 + 1]
             ELSE [neg |-> x.neg # y.neg, m |-> q1, e |-> e0]

\* x * y in f64, correctly rounded
F64Mul(x, y) == RoundF64(x.neg # y.neg, Mul(x.m, y.m), x.e + y.e)

\* `x as u32` for an f64: truncates toward zero and saturates at 0 and u32::MAX
F64AsU32(x) ==
    IF x.neg \/ x.m = <<>> THEN <<>>
    ELSE IF x.e >= 0 THEN U32Max
    ELSE LET v == ShiftRight(x.m, -x.e)
         IN  IF Cmp(v, U32Max) > 0 THEN U32Max ELSE v

\* a variant of NonZeroOrOne without the fallback to 1
NonZeroOrOneNoFallback(v) == v

\* NonZeroU32::new(v).unwrap_or(NonZeroU32::new(1).unwrap())
NonZeroOrOne(v) == IF v = <<>> THEN One ELSE v

\* a variant of Origin that does not substitute the input dimension for 0
OriginNoSubstitution(command, input) == command

\* `match command { 0 => input.get() as i64, c => c }`
Origin(command, input) == IF command.mag = <<>> THEN U32AsI64(input) ELSE command

\* `(input as f64 * (other_origin as f64 / other_input as f64)) as u32`
DerivedAxis(input, other_origin, other_input) ==
    F64AsU32(F64Mul(U32AsF64(input),
                    F64Div(I64AsF64(other_origin), U32AsF64(other_input))))

\* Option<(u32, u32)> and Option<(NonZeroU32, NonZeroU32)>
None == [tag |-> "None"]
Some(w, h) == [tag |-> "Some", width |-> w, height |-> h]

\* a variant of BothNegative that knows only the directive -1
BothMinusOne(wc, hc) == wc = I64(-1) /\ hc = I64(-1)

\* `if width_command < 0 && height_command < 0 { return None; }`
BothNegative(wc, hc) == IsNegative(wc) /\ IsNegative(hc)

\* width_temp and height_temp of output_size, or None for its early return
output_temp(wc, hc, iw, ih) ==
    IF BothNegative(wc, hc) THEN None
    ELSE LET width_origin == Origin(wc, iw)
             height_origin == Origin(hc, ih)
         IN  Some(IF IsNegative(width_origin)
                  THEN DerivedAxis(iw, height_origin, ih)
                  ELSE I64AsU32(width_origin),
                  IF IsNegative(height_origin)
                  THEN DerivedAxis(ih, width_origin, iw)
                  ELSE I64AsU32(height_origin))

\* the fallback to 1 and the value output_size returns
ResolveTemp(temp) ==
    IF temp.tag = "None" THEN None
    ELSE Some(NonZeroOrOne(temp.width), NonZeroOrOne(temp.height))

output_size(wc, hc, iw, ih) == ResolveTemp(output_temp(wc, hc, iw, ih))

---------------------------------------------------------------------------
(* The dispatcher and the resize pipeline (resized_png.rs).  A source file *)
(* is what each of the five decoders makes of it; the resampler, the       *)
(* allocator and the file system are the environment, and every outcome    *)
(* they can have is a possible outcome of the call.                        *)

DecoderNames == {"PNG", "BMP", "GIF", "JPEG", "WEBP"}

\* Result<T, ResizedPngError>
Ok(v) == [ok |-> TRUE, value |-> v]
Err(e) == [ok |-> FALSE, err |-> e]

\* ImageData of a decoder: (Vec<u8>, u32, u32), the buffer named by its decoder
ImageData(d, w, h) == [by |-> d, width |-> w, height |-> h]

\* the failures of <decoder>::read_image_data on a file that can be opened,
\* by the From impls of error.rs and image/webp.rs and the errors the
\* decoders construct themselves
DecodeErrors(d) ==
    CASE d = "PNG" -> {"IoError", "DecodingError", "ParameterError", "LimitsError"}
      [] d = "BMP" -> {"IoError", "ParameterError", "Unsupported"}
      [] d = "GIF" -> {"IoError", "DecodingError"}
      [] d = "JPEG" -> {"IoError", "DecodingError", "Unsupported"}
      [] d = "WEBP" -> {"IoError", "DecodingError", "Unsupported"}

\* enum ResizedPngError
Errors == {"Unsupported", "NotFound", "IoError", "DecodingError", "EncodingError",
           "ParameterError", "LimitsError", "InputSizeError"}

\* a variant of to_code that gives the position of the variant, from 0
to_code_ordinal(e) ==
    CASE e = "Unsupported" -> 0 [] e = "NotFound" -> 1 [] e = "IoError" -> 2
      [] e = "DecodingError" -> 3 [] e = "EncodingError" -> 4
      [] e = "ParameterError" -> 5 [] e = "LimitsError" -> 6
      [] e = "InputSizeError" -> 7

\* ResizedPngError::to_code
to_code(e) ==
    CASE e = "Unsupported" -> 1 [] e = "NotFound" -> 2 [] e = "IoError" -> 3
      [] e = "DecodingError" -> 4 [] e = "EncodingError" -> 5
      [] e = "ParameterError" -> 6 [] e = "LimitsError" -> 7
      [] e = "InputSizeError" -> 8

\* a variant of read_image_data whose File::open reports a missing file as IoError
read_image_data_io(d, file) ==
    IF ~file.exists THEN Err("IoError") ELSE file.decode[d]

\* image::<decoder>::read_image_data(path): File::open(path)? comes first
read_image_data(d, file) ==
    IF ~file.exists THEN Err("NotFound") ELSE file.decode[d]

\* a variant of ResultOr that prefers the second operand when both are Ok
ResultOrLast(a, b) == IF b.ok THEN b ELSE a

\* Result::or: the first Ok, else the second operand
ResultOr(a, b) == IF a.ok THEN a ELSE b

get_image_type(file) ==
    IF read_image_data("PNG", file).ok THEN "PNG"
    ELSE IF read_image_data("BMP", file).ok THEN "BMP"
    ELSE IF read_image_data("GIF", file).ok THEN "GIF"
    ELSE IF read_image_data("JPEG", file).ok THEN "JPEG"
    ELSE IF read_image_data("WEBP", file).ok THEN "WEBP"
    ELSE "UNKNOWN"

\* the decoders get_image_type runs: each `if` runs one, a `return` ends it
TypeOpened(file) ==
    IF read_image_data("PNG", file).ok THEN <<"PNG">>
    ELSE IF read_image_data("BMP", file).ok THEN <<"PNG", "BMP">>
    ELSE IF read_image_data("GIF", file).ok THEN <<"PNG", "BMP", "GIF">>
    ELSE IF read_image_data("JPEG", file).ok THEN <<"PNG", "BMP", "GIF", "JPEG">>
    ELSE <<"PNG", "BMP", "GIF", "JPEG", "WEBP">>

\* lines 34-38 of to_resized_png: the operands of `.or(..)` are evaluated
\* before `or` is called, so all five decoders run
DecodeChain(file) ==
    ResultOr(ResultOr(ResultOr(ResultOr(read_image_data("PNG", file),
                                        read_image_data("BMP", file)),
                               read_image_data("GIF", file)),
                      read_image_data("JPEG", file)),
             read_image_data("WEBP", file))

ChainOpened == <<"PNG", "BMP", "GIF", "JPEG", "WEBP">>

\* the file at dist_path
Absent == [exists |-> FALSE]
Other == [exists |-> TRUE, content |-> "other"]
Empty == [exists |-> TRUE, content |-> "empty"]
Partial(w, h) == [exists |-> TRUE, content |-> "partial", width |-> w, height |-> h]
Png(w, h) == [exists |-> TRUE, content |-> "png", width |-> w, height |-> h]

\* what a call returns: Ok(()), Err(e), or no return (a panic, an abort)
RetOk == [tag |-> "Ok"]
RetErr(e) == [tag |-> "Err", err |-> e]
RetPanic == [tag |-> "panic"]
RetAbort == [tag |-> "abort"]

Outcome(ret, d, steps) == [ret |-> ret, dist |-> d, steps |-> steps]

\* write_png(path, buf, width, height): every way it can end.  File::create
\* creates or truncates the file before anything is encoded; the encoder is
\* given a buffer of the right length, so what fails after that is a write.
write_png(dist0, w, h) ==
    { Outcome(RetErr(e), dist0, <<"File::create">>) : e \in {"NotFound", "IoError"} }
    \cup { Outcome(RetErr("IoError"), Empty, <<"File::create", "write_header">>) }
    \cup { Outcome(RetErr("IoError"), Partial(w, h),
                   <<"File::create", "write_header", "write_image_data">>) }
    \cup { Outcome(RetOk, Png(w, h),
                   <<"File::create", "write_header", "write_image_data">>) }

\* `(output_width.get() * output_height.get() * 4) as usize`: u32 arithmetic
BufferLen(w, h) == LowBits(Mul(LowBits(Mul(w, h), 32), Big(4)), 32)
BufferLenOverflows(w, h) ==
    Cmp(Mul(w, h), U32Max) > 0 \/ Cmp(Mul(LowBits(Mul(w, h), 32), Big(4)), U32Max) > 0

\* lines 51-71 of to_resized_png, for the resolved size: the buffer, the
\* resampler and the encoder
ResizeAndWrite(dist0, w, h) ==
    LET len == BufferLen(w, h)
        short == Cmp(len, Mul(Mul(w, h), Big(4))) < 0
        then(o, steps) == Outcome(o.ret, o.dist, steps \o o.steps)
    IN  \* a build with overflow checks panics where the others wrap
        (IF BufferLenOverflows(w, h) THEN {Outcome(RetPanic, dist0, <<>>)} ELSE {})
        \* vec![0; len]: the allocation fails
        \cup {Outcome(RetAbort, dist0, <<"vec">>)}
        \* resize::new(..)?: Error::OutOfMemory
        \cup {Outcome(RetErr("LimitsError"), dist0, <<"vec", "resize::new">>)}
        \* resizer.resize(..)?: Error::OutOfMemory, or Error::InvalidParameters
        \* for a destination shorter than the output size
        \cup {Outcome(RetErr(IF short THEN "ParameterError" ELSE "LimitsError"), dist0,
                      <<"vec", "resize::new", "resize">>)}
        \cup (IF short THEN {}
              ELSE {then(o, <<"vec", "resize::new", "resize">>) : o \in write_png(dist0, w, h)})

\* a variant of ZeroSize that rejects only an image with no width and no height
BothZero(w, h) == w = <<>> /\ h = <<>>

\* `NonZeroU32::new(input_width_raw).zip(NonZeroU32::new(input_height_raw))` is None
ZeroSize(w, h) == w = <<>> \/ h = <<>>

\* to_resized_png(src_path, dist_path, width_command, height_command): every
\* way the call can end, as [ret, dist, steps, image, temp, size]
to_resized_png(file, dist0, wc, hc) ==
    LET decoded == DecodeChain(file)
        end(o, temp, size) ==
            [ret |-> o.ret, dist |-> o.dist, steps |-> o.steps, image |-> decoded,
             temp |-> temp, size |-> size,
             \* dist_rgba, once `vec!` has made it
             buffer |-> IF Len(o.steps) >= 2 /\ o.steps[2] = "vec"
                        THEN [tag |-> "Some", len |-> BufferLen(size.width, size.height)]
                        ELSE None]
    IN  IF ~decoded.ok
        THEN {end(Outcome(RetErr(decoded.err), dist0, <<>>),
                  [tag |-> "pending"], [tag |-> "pending"])}
        ELSE IF ZeroSize(decoded.value.width, decoded.value.height)
        THEN {end(Outcome(RetErr("InputSizeError"), dist0, <<>>),
                  [tag |-> "pending"], [tag |-> "pending"])}
        ELSE LET temp == output_temp(wc, hc, decoded.value.width, decoded.value.height)
                 size == ResolveTemp(temp)
             IN  IF size.tag = "None"
                 THEN {end(Outcome(RetOk, dist0, <<"output_size">>), temp, size)}
                 ELSE {end(Outcome(o.ret, o.dist, <<"output_size">> \o o.steps), temp, size) :
                          o \in ResizeAndWrite(dist0, size.width, size.height)}

MaxDim == 1

\* the sizes a decoder reports: the small ones, 0 included, and a larger one
SrcSizes == {<<Big(w), Big(h)>> : w, h \in 0..MaxDim} \cup {<<Big(100), Big(200)>>}

\* what a decoder can make of a file that holds an image of size sz for it
Results(d, sz) == {Err(e) : e \in DecodeErrors(d)} \cup {Ok(ImageData(d, sz[1], sz[2]))}

FileOf(png, bmp, gif, jpeg, webp) ==
    [exists |-> TRUE,
     decode |-> [d \in DecoderNames |->
                   CASE d = "PNG" -> png [] d = "BMP" -> bmp [] d = "GIF" -> gif
                     [] d = "JPEG" -> jpeg [] d = "WEBP" -> webp]]

\* the source files: none at src_path, or one that each decoder either
\* rejects or decodes to an image of its own
SrcFiles ==
    {[exists |-> FALSE]}
    \cup UNION { { FileOf(png, bmp, gif, jpeg, webp) :
                     png \in Results("PNG", sz), bmp \in Results("BMP", sz),
                     gif \in Results("GIF", sz), jpeg \in Results("JPEG", sz),
                     webp \in Results("WEBP", sz) } : sz \in SrcSizes }

\* the directives the pipeline is called with: both negative (of any
\* magnitude), keep-original, one negative, exact, and sizes whose buffer
\* length does not fit in u32
PipeDirectives ==
    { <<I64(-1), I64(-1)>>,
      <<[neg |-> TRUE, mag |-> Pow2(63)], I64(-2)>>,
      <<I64(-3), [neg |-> TRUE, mag |-> Pow2(32)]>>,
      <<I64(0), I64(0)>>,
      <<I64(-1), I64(2)>>,
      <<I64(3), I64(-1)>>,
      <<I64(1), I64(3)>>,
      <<I64(2), [neg |-> FALSE, mag |-> Pow2(32)]>>,
      <<[neg |-> FALSE, mag |-> Pow2(16)], [neg |-> FALSE, mag |-> Pow2(14)]>>,
      <<[neg |-> FALSE, mag |-> Pow2(16)], [neg |-> FALSE, mag |-> Pow2(16)]>> }

Pending == [tag |-> "pending"]

SizeIdle ==
    /\ width_command = I64(0) /\ height_command = I64(0)
    /\ input_width = <<>> /\ input_height = <<>>
    /\ size_temp = Pending /\ size_result = Pending

Init ==
    /\ src \in SrcFiles
    /\ dist \in {Absent, Other}
    /\ call = [op |-> "none"]
    /\ SizeIdle
    /\ png_info = "unused" /\ png_buf = "unused" /\ png_out = "unused"

GetImageType ==
    /\ call.op = "none"
    /\ call' = [op |-> "get_image_type", label |-> get_image_type(src),
                opened |-> TypeOpened(src), dist_before |-> dist]
    /\ UNCHANGED <<src, dist, size_vars, png_vars>>

ToResizedPng ==
    /\ call.op = "none"
    /\ \E d \in PipeDirectives :
         \E o \in to_resized_png(src, dist, d[1], d[2]) :
            /\ call' = [op |-> "to_resized_png", ret |-> o.ret, opened |-> ChainOpened,
                        image |-> o.image, steps |-> o.steps, buffer |-> o.buffer,
                        dist_before |-> dist]
            /\ dist' = o.dist
            /\ width_command' = d[1]
            /\ height_command' = d[2]
            /\ input_width' = IF o.image.ok THEN o.image.value.width ELSE <<>>
            /\ input_height' = IF o.image.ok THEN o.image.value.height ELSE <<>>
            /\ size_temp' = o.temp
            /\ size_result' = o.size
    /\ UNCHANGED <<src, png_vars>>

\* to_code on an error value
ToCode ==
    /\ call.op = "none"
    /\ \E e \in Errors : call' = [op |-> "to_code", err |-> e, code |-> to_code(e)]
    /\ UNCHANGED <<src, dist, size_vars, png_vars>>

Next == GetImageType \/ ToResizedPng \/ ToCode

Spec == Init /\ [][Next]_vars

\* the earliest decoder of the fixed order that accepts the file
Priority == <<"PNG", "BMP", "GIF", "JPEG", "WEBP">>
Accepting(file) ==
    {i \in 1..Len(Priority) : file.exists /\ file.decode[Priority[i]].ok}
Earliest(file) ==
    IF Accepting(file) = {} THEN "UNKNOWN"
    ELSE Priority[CHOOSE i \in Accepting(file) : \A j \in Accepting(file) : i <= j]

Identified == call.op = "get_image_type"
Converted == call.op = "to_resized_png"
Decoded == Converted /\ call.image.ok
NonZeroImage == Decoded /\ input_width # <<>> /\ input_height # <<>>

\* C1: identify_format returns the label of the earliest decoder of the order
\* PNG, BMP, GIF, JPEG, WEBP that accepts the file and "UNKNOWN" exactly when
\* none does (a missing file included); convert uses the image of that same
\* decoder and fails at the decode step exactly when none accepts the file.
DispatcherPrecedence ==
    /\ Identified => call.label = Earliest(src)
    /\ Converted =>
         /\ call.image.ok <=> Earliest(src) # "UNKNOWN"
         /\ call.image.ok => call.image.value.by = Earliest(src)
         /\ ~call.image.ok => call.ret.tag = "Err" /\ call.steps = <<>>

\* convert decoded a file that a later decoder accepts as well
DispatcherPrecedenceWitness ==
    /\ Decoded
    /\ Cardinality(Accepting(src)) >= 2
    /\ call.image.value.by = Earliest(src)
    /\ call.image.value.by # "PNG"

\* C2: for directives that are both negative, of any magnitude, output_size
\* returns None for every input size, and convert on a source that decodes to
\* a non-zero-size image returns success with no resample and no encode, and
\* with the file at dist_path neither created nor written.
BothNegativeIsNoOp ==
    (NonZeroImage /\ IsNegative(width_command) /\ IsNegative(height_command)) =>
        /\ size_result = None
        /\ size_result = output_size(width_command, height_command,
                                     input_width, input_height)
        /\ call.ret = RetOk
        /\ call.steps = <<"output_size">>
        /\ dist = call.dist_before

\* convert was called with two negative directives that are not -1, on an
\* image of non-zero size, and dist_path held no file
BothNegativeIsNoOpWitness ==
    /\ NonZeroImage
    /\ IsNegative(width_command) /\ width_command # I64(-1)
    /\ IsNegative(height_command) /\ height_command # I64(-1)
    /\ call.ret = RetOk
    /\ call.dist_before = Absent /\ dist = Absent

\* C14: when the selected decoder returns an image whose width or height is
\* 0, convert returns InputSizeError for every directive pair, before the size
\* negotiation, with no resample, no encode and dist_path left as it was.
ZeroSizeInput ==
    (Decoded /\ (call.image.value.width = <<>> \/ call.image.value.height = <<>>)) =>
        /\ call.ret = RetErr("InputSizeError")
        /\ call.steps = <<>>
        /\ size_result = Pending
        /\ dist = call.dist_before

\* an image 1 wide and 0 high, with two negative directives
ZeroSizeInputWitness ==
    /\ Decoded
    /\ call.image.value.width = One /\ call.image.value.height = <<>>
    /\ IsNegative(width_command) /\ IsNegative(height_command)
    /\ call.ret = RetErr("InputSizeError")
    /\ dist = Absent

\* C15: convert on a src_path that does not exist returns NotFound, whose
\* code is 2, and creates no destination file.
MissingSource ==
    (Converted /\ ~src.exists) =>
        /\ call.ret = RetErr("NotFound")
        /\ to_code(call.ret.err) = 2
        /\ dist = call.dist_before

\* convert was called with no file at src_path and none at dist_path
MissingSourceWitness ==
    /\ Converted
    /\ ~src.exists
    /\ call.ret = RetErr("NotFound")
    /\ call.dist_before = Absent /\ dist = Absent

\* the codes of the specification
ErrorCodes ==
    [Unsupported |-> 1, NotFound |-> 2, IoError |-> 3, DecodingError |-> 4,
     EncodingError |-> 5, ParameterError |-> 6, LimitsError |-> 7, InputSizeError |-> 8]

\* C18: to_code maps Unsupported, NotFound, IoError, DecodingError,
\* EncodingError, ParameterError, LimitsError, InputSizeError to 1..8 in that
\* order; no code is 0 and no two errors share a code.
StableErrorCodes ==
    call.op = "to_code" =>
        /\ call.code = ErrorCodes[call.err]
        /\ call.code # 0
        /\ \A e \in Errors : to_code(e) = call.code => e = call.err

\* the code of the last variant
StableErrorCodesWitness ==
    /\ call.op = "to_code"
    /\ call.err = "InputSizeError"
    /\ call.code = 8

\* C22: in identify_format and in convert, a decoder is run (and the source
\* file opened by it) only if every decoder before it in the order PNG, BMP,
\* GIF, JPEG, WEBP has failed; after a decoder succeeds no later one is run.
OnlyOnFailure ==
    (Identified \/ Converted) =>
        call.opened =
           SubSeq(Priority, 1,
                  IF Accepting(src) = {} THEN Len(Priority)
                  ELSE CHOOSE i \in Accepting(src) : \A j \in Accepting(src) : i <= j)

\* C16: when the JPEG decoder fails with Unsupported and no other decoder
\* accepts the file, convert returns Unsupported.
UnsupportedLayout ==
    (/\ Converted
     /\ src.exists
     /\ src.decode["JPEG"] = Err("Unsupported")
     /\ Accepting(src) = {}) => call.ret = RetErr("Unsupported")

Reached(step) == \E i \in 1..Len(call.steps) : call.steps[i] = step

\* C17: convert never panics or aborts, and a call that ends at the
\* allocation of the output buffer or in the resampler returns LimitsError.
SizeFailuresAreLimitsErrors ==
    Converted =>
        /\ call.ret.tag \in {"Ok", "Err"}
        /\ (Reached("vec") /\ ~Reached("File::create") /\ call.ret.tag = "Err") =>
              call.ret = RetErr("LimitsError")

\* C19: the buffer convert allocates has length out_w*out_h*4, the
\* mathematical product, for every resolved output size, and the PNG is
\* written with width out_w and height out_h.
OutputBufferAndDimensions ==
    (Converted /\ size_result.tag = "Some") =>
        /\ call.ret.tag \in {"Ok", "Err"} => Reached("vec")
        /\ call.buffer.tag = "Some" =>
              call.buffer.len = Mul(Mul(size_result.width, size_result.height), Big(4))
        /\ call.ret = RetOk => dist = Png(size_result.width, size_result.height)

\* C3: whenever convert returns an error, the file at dist_path is as it was
\* before the call: not created, not modified.
NoPartialOutput ==
    (Converted /\ call.ret.tag = "Err") => dist = call.dist_before

---------------------------------------------------------------------------
(* The output-size negotiation on its own: every call of output_size on    *)
(* the directives and input sizes below.                                   *)

MaxDelta == 1

\* v - MaxDelta .. v + MaxDelta, for a Big v >= MaxDelta
Around(v) ==
    {Add(v, Big(k)) : k \in 0..MaxDelta} \cup {Sub(v, Big(k)) : k \in 0..MaxDelta}

\* positive (and zero) commands: small ones, the tested ones, the ones around
\* u32::MAX + 1 and the ones up to i64::MAX
CommandMagnitudes ==
    Around(Big(MaxDelta)) \cup Around(Big(100)) \cup Around(Pow2(32))
        \cup Around(Sub(Pow2(63), Big(MaxDelta + 1)))

SizeCommands ==
    {[neg |-> FALSE, mag |-> m] : m \in CommandMagnitudes}
        \cup {[neg |-> TRUE, mag |-> Big(k)] : k \in 1..MaxDelta}
        \cup {[neg |-> TRUE, mag |-> Pow2(63)]}

SizeInputs ==
    {Big(k) : k \in 1..(MaxDelta + 1)} \cup {Big(49), Big(98), Big(100), Big(200), U32Max}

PipeIdle == src = "unused" /\ dist = "unused" /\ call = "unused"
PngIdle == png_info = "unused" /\ png_buf = "unused" /\ png_out = "unused"

InitSize ==
    /\ width_command \in SizeCommands
    /\ height_command \in SizeCommands
    /\ input_width \in SizeInputs
    /\ input_height \in SizeInputs
    /\ size_temp = Pending
    /\ size_result = Pending
    /\ PipeIdle
    /\ PngIdle

CallOutputSize ==
    /\ size_result.tag = "pending"
    /\ size_temp' = output_temp(width_command, height_command, input_width, input_height)
    /\ size_result' = ResolveTemp(size_temp')
    /\ UNCHANGED <<width_command, height_command, input_width, input_height>>
    /\ UNCHANGED <<pipe_vars, png_vars>>

NextSize == CallOutputSize

SpecSize == InitSize /\ [][NextSize]_vars

Resolved == size_result.tag = "Some"
IsPositive(x) == ~x.neg /\ x.mag # <<>>

\* the integer part of a non-negative f64, without any limit
F64Trunc(x) ==
    IF x.neg \/ x.m = <<>> THEN <<>>
    ELSE IF x.e >= 0 THEN ShiftLeft(x.m, x.e) ELSE ShiftRight(x.m, -x.e)

\* input * (other_origin / other_input) in f64, truncated, 0 replaced by 1
RatioOf(input, other_origin, other_input) ==
    LET t == F64Trunc(F64Mul(U32AsF64(input),
                             F64Div(I64AsF64(other_origin), U32AsF64(other_input))))
    IN  IF t = <<>> THEN One ELSE t

\* C4: a positive directive is an exact pixel count: whenever output_size
\* returns a size, a positive width_command is the returned width and a
\* positive height_command is the returned height, over the whole i64 range.
PositiveIsExact ==
    Resolved =>
        /\ IsPositive(width_command) => size_result.width = width_command.mag
        /\ IsPositive(height_command) => size_result.height = height_command.mag

\* C5: aspect-ratio derivation: when exactly one directive is negative, the
\* other axis is its origin value (the command, or the input dimension for 0)
\* and the negative axis is input * (other_origin / other_input) truncated
\* toward zero, with 0 replaced by 1.
AspectRatioDerivation ==
    Resolved =>
        /\ IsNegative(width_command) =>
              /\ size_result.height = Origin(height_command, input_height).mag
              /\ size_result.width = RatioOf(input_width,
                                          Origin(height_command, input_height),
                                          input_height)
        /\ IsNegative(height_command) =>
              /\ size_result.width = Origin(width_command, input_width).mag
              /\ size_result.height = RatioOf(input_height,
                                          Origin(width_command, input_width),
                                          input_width)

\* C6: keep-original: a directive of 0 on an axis resolves to the input
\* dimension of that axis, whatever the other directive is (so that
\* output_size(0, 0, w, h) = (w, h)).
KeepOriginal ==
    Resolved =>
        /\ width_command.mag = <<>> => size_result.width = input_width
        /\ height_command.mag = <<>> => size_result.height = input_height

\* output_size(0, 0, 100, 200) has returned (100, 200)
KeepOriginalWitness ==
    /\ width_command.mag = <<>> /\ height_command.mag = <<>>
    /\ input_width = Big(100) /\ input_height = Big(200)
    /\ size_result = Some(Big(100), Big(200))

\* C7: minimum floor: whenever output_size returns a size both dimensions
\* are at least 1, and a dimension whose computed value is 0 is returned as 1.
MinimumFloor ==
    Resolved =>
        /\ size_result.width # <<>> /\ size_result.height # <<>>
        /\ size_temp.width = <<>> => size_result.width = One
        /\ size_temp.height = <<>> => size_result.height = One

\* a derived width whose ratio product is below 1 has been returned as 1
MinimumFloorWitness ==
    /\ Resolved
    /\ IsNegative(width_command) /\ height_command = I64(1)
    /\ input_width = Big(2) /\ input_height = Big(200)
    /\ size_temp.width = <<>>
    /\ size_result.width = One


---------------------------------------------------------------------------
(* The PNG raw-buffer conversion (image/png.rs).  Bytes, samples and       *)
(* lengths are small naturals; a u8 shift keeps its eight bits.            *)

SomeOf(v) == [tag |-> "Some", value |-> v]

\* png::Info, the fields buf_to_rgba reads
Info(ct, bd, w, h, palette, trns) ==
    [color_type |-> ct, bit_depth |-> bd, width |-> w, height |-> h,
     palette |-> palette, trns |-> trns]

ColorTypes == {"Grayscale", "GrayscaleAlpha", "Rgb", "Rgba", "Indexed"}
BitDepths == {1, 2, 4, 8, 16}

\* `info.color_type.samples()`
samples(ct) ==
    CASE ct = "Grayscale" -> 1 [] ct = "Indexed" -> 1 [] ct = "GrayscaleAlpha" -> 2
      [] ct = "Rgb" -> 3 [] ct = "Rgba" -> 4

\* u8 `<<`, `>>` and `| 0b01111111`
Shl8(t, k) == (t * 2^k) % 256
Shr8(t, k) == t \div 2^k
Or7F(x) == (x \div 128) * 128 + 127
\* `(t << k) | 0b01111111 == u8::MAX`
TopBitAfter(t, k) == Or7F(Shl8(t, k)) = 255

\* Vec::resize(new_len, value)
Resize(v, n, x) ==
    IF Len(v) >= n THEN SubSeq(v, 1, n) ELSE v \o [i \in 1..(n - Len(v)) |-> x]

read_byte_for_bit_depth_8_when_bit_depth_one(t) ==
    [i \in 1..8 |-> IF TopBitAfter(t, i - 1) THEN 255 ELSE 0]

\* a variant of the 2-bit expansion that scales the sample linearly
read_byte_for_bit_depth_8_when_bit_depth_two_scaled(t) ==
    [i \in 1..4 |-> 85 * (Shr8(Shl8(t, (i - 1) * 2), 6) % 4)]

read_byte_for_bit_depth_8_when_bit_depth_two(t) ==
    [i \in 1..4 |->
        (IF TopBitAfter(t, (i - 1) * 2) THEN 128 ELSE 0)
        + (IF TopBitAfter(t, (i - 1) * 2 + 1) THEN 127 ELSE 0)]

read_byte_for_bit_depth_8_when_bit_depth_four(t) ==
    [i \in 1..2 |->
        (IF TopBitAfter(t, (i - 1) * 4) THEN 128 ELSE 0)
        + (IF TopBitAfter(t, (i - 1) * 4 + 1) THEN 64 ELSE 0)
        + (IF TopBitAfter(t, (i - 1) * 4 + 2) THEN 32 ELSE 0)
        + (IF TopBitAfter(t, (i - 1) * 4 + 3) THEN 31 ELSE 0)]

\* `let f = match &info.bit_depth` of read_bytes_for_bit_depth_8, applied
ExpandByte(bd, t) ==
    CASE bd = 1 -> read_byte_for_bit_depth_8_when_bit_depth_one(t)
      [] bd = 2 -> read_byte_for_bit_depth_8_when_bit_depth_two(t)
      [] bd = 4 -> read_byte_for_bit_depth_8_when_bit_depth_four(t)

\* a variant of FillLine8 that keeps the samples of the unused trailing bits
RECURSIVE FillLine8Untruncated(_, _, _, _, _)
FillLine8Untruncated(bd, buf, pos, line, line_length) ==
    IF pos > Len(buf) THEN [line |-> line, pos |-> pos]
    ELSE LET extended == line \o ExpandByte(bd, buf[pos])
         IN  IF Len(extended) >= line_length
             THEN [line |-> extended, pos |-> pos + 1]
             ELSE FillLine8Untruncated(bd, buf, pos + 1, extended, line_length)

\* the inner `for t in &mut buf_iter`: the line and the iterator after it
RECURSIVE FillLine8(_, _, _, _, _)
FillLine8(bd, buf, pos, line, line_length) ==
    IF pos > Len(buf) THEN [line |-> line, pos |-> pos]
    ELSE LET extended == line \o ExpandByte(bd, buf[pos])
         IN  IF Len(extended) >= line_length
             THEN [line |-> Resize(extended, line_length, 0), pos |-> pos + 1]
             ELSE FillLine8(bd, buf, pos + 1, extended, line_length)

\* `for _ in 0..height` of read_bytes_for_bit_depth_8
RECURSIVE Lines8(_, _, _, _, _, _)
Lines8(bd, buf, pos, rows, line_length, result) ==
    IF rows = 0 THEN Ok(result)
    ELSE LET filled == FillLine8(bd, buf, pos, <<>>, line_length)
         IN  IF Len(filled.line) < line_length THEN Err("DecodingError")
             ELSE Lines8(bd, buf, filled.pos, rows - 1, line_length,
                         result \o filled.line)

\* `buf.iter().step_by(2).copied().collect()`
StepBy2(buf) == [i \in 1..((Len(buf) + 1) \div 2) |-> buf[2 * i - 1]]

read_bytes_for_bit_depth_8(buf, info) ==
    IF info.bit_depth = 8 THEN Ok(buf)
    ELSE IF info.bit_depth = 16 THEN Ok(StepBy2(buf))
    ELSE Lines8(info.bit_depth, buf, 1, info.height,
                info.width * samples(info.color_type), <<>>)

\* what a per-depth reader of read_bytes_for_usize gives: Ok(Some(..)) with
\* the samples and the iterator after them, Ok(None), or Err
Taken(vals, pos) == [tag |-> "Some", vals |-> vals, pos |-> pos]
NoneLeft == [tag |-> "None"]
Dangling == [tag |-> "Err"]

read_byte_for_usize_when_bit_depth_one(buf, pos) ==
    IF pos > Len(buf) THEN NoneLeft
    ELSE Taken([i \in 1..8 |-> IF TopBitAfter(buf[pos], i - 1) THEN 1 ELSE 0], pos + 1)

read_byte_for_usize_when_bit_depth_two(buf, pos) ==
    IF pos > Len(buf) THEN NoneLeft
    ELSE Taken([i \in 1..4 |-> Shr8(Shl8(buf[pos], (i - 1) * 2), 6) % 4], pos + 1)

read_byte_for_usize_when_bit_depth_four(buf, pos) ==
    IF pos > Len(buf) THEN NoneLeft
    ELSE Taken([i \in 1..2 |-> Shr8(Shl8(buf[pos], (i - 1) * 4), 4) % 16], pos + 1)

read_byte_for_usize_when_bit_depth_eight(buf, pos) ==
    IF pos > Len(buf) THEN NoneLeft
    ELSE Taken(<<buf[pos]>>, pos + 1)

\* a variant of u16_from_be_bytes that reads the pair little-endian
u16_from_le_bytes(t1, t2) == t2 * 256 + t1

\* u16::from_be_bytes([t1, t2])
u16_from_be_bytes(t1, t2) == t1 * 256 + t2

read_byte_for_usize_when_bit_depth_sixteen(buf, pos) ==
    IF pos > Len(buf) THEN NoneLeft
    ELSE IF pos + 1 > Len(buf) THEN Dangling
    ELSE Taken(<<u16_from_be_bytes(buf[pos], buf[pos + 1])>>, pos + 2)

\* `let f = match &info.bit_depth` of read_bytes_for_usize, applied
TakeSamples(bd, buf, pos) ==
    CASE bd = 1 -> read_byte_for_usize_when_bit_depth_one(buf, pos)
      [] bd = 2 -> read_byte_for_usize_when_bit_depth_two(buf, pos)
      [] bd = 4 -> read_byte_for_usize_when_bit_depth_four(buf, pos)
      [] bd = 8 -> read_byte_for_usize_when_bit_depth_eight(buf, pos)
      [] bd = 16 -> read_byte_for_usize_when_bit_depth_sixteen(buf, pos)

\* the inner `while let Some(tmp_size) = f(..)?`
RECURSIVE FillLineUsize(_, _, _, _, _)
FillLineUsize(bd, buf, pos, line, line_length) ==
    LET taken == TakeSamples(bd, buf, pos)
    IN  IF taken.tag = "Err" THEN [failed |-> TRUE]
        ELSE IF taken.tag = "None" THEN [failed |-> FALSE, line |-> line, pos |-> pos]
        ELSE LET extended == line \o taken.vals
             IN  IF Len(extended) >= line_length
                 THEN [failed |-> FALSE, line |-> Resize(extended, line_length, 0),
                       pos |-> taken.pos]
                 ELSE FillLineUsize(bd, buf, taken.pos, extended, line_length)

\* `for _ in 0..height` of read_bytes_for_usize
RECURSIVE LinesUsize(_, _, _, _, _, _)
LinesUsize(bd, buf, pos, rows, line_length, result) ==
    IF rows = 0 THEN Ok(result)
    ELSE LET filled == FillLineUsize(bd, buf, pos, <<>>, line_length)
         IN  IF filled.failed THEN Err("DecodingError")
             ELSE IF Len(filled.line) < line_length THEN Err("DecodingError")
             ELSE LinesUsize(bd, buf, filled.pos, rows - 1, line_length,
                             result \o filled.line)

read_bytes_for_usize(buf, info) ==
    LinesUsize(info.bit_depth, buf, 1, info.height,
               info.width * samples(info.color_type), <<>>)

\* a variant of split_palette that drops an incomplete last entry
RECURSIVE split_palette_lenient(_)
split_palette_lenient(raw) ==
    IF Len(raw) < 3 THEN Ok(<<>>)
    ELSE Ok(<<SubSeq(raw, 1, 3)>> \o split_palette_lenient(SubSeq(raw, 4, Len(raw))).value)

\* raw.chunks(3), each chunk of length 3 or the whole split fails
RECURSIVE split_palette(_)
split_palette(raw) ==
    IF raw = <<>> THEN Ok(<<>>)
    ELSE IF Len(raw) < 3 THEN Err("DecodingError")
    ELSE LET rest == split_palette(SubSeq(raw, 4, Len(raw)))
         IN  IF rest.ok THEN Ok(<<SubSeq(raw, 1, 3)>> \o rest.value) ELSE rest

\* `bytes.iter().flat_map(|v| [*v, *v, *v, u8::MAX]).collect()`
RECURSIVE GrayToRgba(_)
GrayToRgba(bytes) ==
    IF bytes = <<>> THEN <<>>
    ELSE <<bytes[1], bytes[1], bytes[1], 255>> \o GrayToRgba(Tail(bytes))

\* `while let (Some(g), Some(a)) = (bytes_iter.next(), bytes_iter.next())`
RECURSIVE GrayAlphaToRgba(_)
GrayAlphaToRgba(bytes) ==
    IF Len(bytes) < 2 THEN <<>>
    ELSE <<bytes[1], bytes[1], bytes[1], bytes[2]>>
         \o GrayAlphaToRgba(SubSeq(bytes, 3, Len(bytes)))

\* a variant of RgbToRgba that swaps the red and the blue sample
RECURSIVE RgbToBgra(_)
RgbToBgra(bytes) ==
    IF Len(bytes) < 3 THEN <<>>
    ELSE <<bytes[3], bytes[2], bytes[1], 255>> \o RgbToBgra(SubSeq(bytes, 4, Len(bytes)))

\* `while let (Some(r), Some(g), Some(b)) = (.next(), .next(), .next())`
RECURSIVE RgbToRgba(_)
RgbToRgba(bytes) ==
    IF Len(bytes) < 3 THEN <<>>
    ELSE <<bytes[1], bytes[2], bytes[3], 255>> \o RgbToRgba(SubSeq(bytes, 4, Len(bytes)))

\* a variant of AlphaAt that ignores the transparency table
AlphaOpaque(trns, index) == 255

\* `info.trns.as_ref().and_then(|v| v.get(index).copied()).unwrap_or(u8::MAX)`
AlphaAt(trns, index) ==
    IF trns.tag = "Some" /\ index < Len(trns.value) THEN trns.value[index + 1] ELSE 255

\* `for _i in 0..pixel_len` of the Indexed arm
RECURSIVE IndexedToRgba(_, _, _, _, _, _)
IndexedToRgba(indices, palette, trns, i, pixel_len, result) ==
    IF i > pixel_len THEN Ok(result)
    ELSE IF i > Len(indices) THEN Err("DecodingError")
    ELSE LET index == indices[i]
         IN  IF index >= Len(palette) THEN Err("DecodingError")
             ELSE LET target_palette == palette[index + 1]
                      alpha == AlphaAt(trns, index)
                  IN  IndexedToRgba(indices, palette, trns, i + 1, pixel_len,
                                    result \o <<target_palette[1], target_palette[2],
                                                target_palette[3], alpha>>)

\* jpeg::to_rgb(raw_pixels, pixel_format)
PixelFormats == {"L8", "L16", "RGB24", "CMYK32"}
to_rgb(raw_pixels, pixel_format) ==
    CASE pixel_format = "L8" -> Ok(GrayToRgba(raw_pixels))
      [] pixel_format = "L16" -> Ok(GrayToRgba(StepBy2(raw_pixels)))
      [] pixel_format = "RGB24" -> Ok(RgbToRgba(raw_pixels))
      [] pixel_format = "CMYK32" -> Err("Unsupported")

\* the `match info.color_type` of buf_to_rgba: the composed buffer, or the
\* error of an early return
Compose(raw_bytes, info) ==
    IF info.color_type = "Indexed"
    THEN LET indices == read_bytes_for_usize(raw_bytes, info)
         IN  IF ~indices.ok THEN indices
             ELSE IF info.palette.tag = "None" THEN Err("DecodingError")
             ELSE LET palette == split_palette(info.palette.value)
                  IN  IF ~palette.ok THEN palette
                      ELSE IndexedToRgba(indices.value, palette.value, info.trns, 1,
                                         info.width * info.height, <<>>)
    ELSE LET bytes == read_bytes_for_bit_depth_8(raw_bytes, info)
         IN  IF ~bytes.ok THEN bytes
             ELSE CASE info.color_type = "Grayscale" -> Ok(GrayToRgba(bytes.value))
                    [] info.color_type = "GrayscaleAlpha" -> Ok(GrayAlphaToRgba(bytes.value))
                    [] info.color_type = "Rgb" -> Ok(RgbToRgba(bytes.value))
                    [] info.color_type = "Rgba" -> bytes

\* a variant of Finish that pads a short buffer with zeros
FinishPadded(result, rgba_len) == Ok(Resize(result, rgba_len, 0))

\* the length check that ends buf_to_rgba
Finish(result, rgba_len) ==
    IF Len(result) < rgba_len THEN Err("DecodingError")
    ELSE Ok(Resize(result, rgba_len, 0))

buf_to_rgba(raw_bytes, info) ==
    LET composed == Compose(raw_bytes, info)
    IN  IF ~composed.ok THEN composed
        ELSE Finish(composed.value, (info.width * info.height) * 4)

---------------------------------------------------------------------------
(* The conversion on its own: the three functions of image/png.rs applied  *)
(* to an Info and a raw buffer, as their unit tests apply them.            *)

MaxWidth == 2
MaxHeight == 2
MaxBufLen == 4

\* 00 01 10 11 and 11 10 01 00: every 1- and 2-bit sample, msb first
SampleBytes == {27, 228}

Palettes == {None, SomeOf(<<10, 20, 30>>), SomeOf(<<10, 20, 30, 40>>),
             SomeOf(<<10, 20, 30, 40, 50, 60>>)}
Transparencies == {None, SomeOf(<<7>>)}

\* small images of every color type and bit depth, with buffers of every
\* length up to MaxBufLen: too short, exact and too long
LayoutInfos ==
    {Info(ct, bd, w, h, palette, trns) :
        ct \in ColorTypes \ {"Indexed"}, bd \in BitDepths,
        w \in 0..MaxWidth, h \in 0..MaxHeight, palette \in {None}, trns \in {None}}
    \cup {Info("Indexed", bd, w, h, palette, trns) :
            bd \in BitDepths, w \in 0..MaxWidth, h \in 0..MaxHeight,
            palette \in Palettes, trns \in Transparencies}
LayoutBufs == UNION {[1..n -> SampleBytes] : n \in 0..MaxBufLen}

\* one line that takes a whole byte at any depth, with every byte value and
\* every 16-bit pair <<b, 255 - b>>
ByteInfos ==
    {Info(ct, bd, w, 1, IF ct = "Indexed" THEN SomeOf(<<10, 20, 30, 40, 50, 60>>) ELSE None,
          None) :
        ct \in ColorTypes, bd \in BitDepths, w \in {1, 8}}
ByteBufs == {<<b>> : b \in 0..255} \cup {<<b, 255 - b>> : b \in 0..255}

\* 2x2 indexed images whose buffer bytes are 0 or 1, with a palette of two
\* entries: the indices 0 and 1 at depth 8 and 16, and larger ones
IndexInfos ==
    {Info("Indexed", bd, 2, 2, SomeOf(<<1, 2, 3, 4, 5, 6>>), trns) :
        bd \in BitDepths, trns \in Transparencies}
IndexBufs == UNION {[1..n -> {0, 1}] : n \in {7, 8}}

InitPng ==
    /\ \/ png_info \in LayoutInfos /\ png_buf \in LayoutBufs
       \/ png_info \in ByteInfos /\ png_buf \in ByteBufs
       \/ png_info \in IndexInfos /\ png_buf \in IndexBufs
    /\ png_out = [op |-> "none"]
    /\ PipeIdle
    /\ SizeIdle

CallBufToRgba ==
    /\ png_out.op = "none"
    /\ png_out' = [op |-> "buf_to_rgba", composed |-> Compose(png_buf, png_info),
                   result |-> buf_to_rgba(png_buf, png_info)]
    /\ UNCHANGED <<png_info, png_buf, size_vars, pipe_vars>>

CallReadBytesForBitDepth8 ==
    /\ png_out.op = "none"
    /\ png_out' = [op |-> "read_bytes_for_bit_depth_8",
                   result |-> read_bytes_for_bit_depth_8(png_buf, png_info)]
    /\ UNCHANGED <<png_info, png_buf, size_vars, pipe_vars>>

CallReadBytesForUsize ==
    /\ png_out.op = "none"
    /\ png_out' = [op |-> "read_bytes_for_usize",
                   result |-> read_bytes_for_usize(png_buf, png_info)]
    /\ UNCHANGED <<png_info, png_buf, size_vars, pipe_vars>>

\* jpeg::to_rgb on the same raw buffers, for each pixel format
CallToRgb ==
    /\ png_out.op = "none"
    /\ \E pixel_format \in PixelFormats :
          png_out' = [op |-> "to_rgb", pixel_format |-> pixel_format,
                      result |-> to_rgb(png_buf, pixel_format)]
    /\ UNCHANGED <<png_info, png_buf, size_vars, pipe_vars>>

NextPng ==
    CallBufToRgba \/ CallReadBytesForBitDepth8 \/ CallReadBytesForUsize \/ CallToRgb

SpecPng == InitPng /\ [][NextPng]_vars

rgba_len == (png_info.width * png_info.height) * 4

\* C8: buf_to_rgba returns DecodingError when the composed RGBA buffer is
\* shorter than width*height*4 (no zero padding), and otherwise exactly the
\* first width*height*4 bytes of the composed buffer; every successful result
\* has length width*height*4.
ShortFailsLongTruncated ==
    png_out.op = "buf_to_rgba" =>
        /\ (png_out.composed.ok /\ Len(png_out.composed.value) < rgba_len) =>
              png_out.result = Err("DecodingError")
        /\ (png_out.composed.ok /\ Len(png_out.composed.value) >= rgba_len) =>
              png_out.result = Ok(SubSeq(png_out.composed.value, 1, rgba_len))
        /\ png_out.result.ok => Len(png_out.result.value) = rgba_len

\* a composed buffer that holds pixels, but fewer than width*height
ShortFailsLongTruncatedWitness ==
    /\ png_out.op = "buf_to_rgba"
    /\ png_out.composed.ok
    /\ Len(png_out.composed.value) > 0
    /\ Len(png_out.composed.value) < rgba_len
    /\ png_out.result = Err("DecodingError")

\* the source sample of the k-th output sample (from 0) at a depth below 8:
\* the lines are line_length samples long and start on a byte
LineLength == png_info.width * samples(png_info.color_type)
PerByte == 8 \div png_info.bit_depth
BytesPerLine == (LineLength + PerByte - 1) \div PerByte
SourceByte(k) ==
    png_buf[(k \div LineLength) * BytesPerLine + ((k % LineLength) \div PerByte) + 1]
SourceSample(k) ==
    (SourceByte(k) \div 2^(8 - png_info.bit_depth * (((k % LineLength) % PerByte) + 1)))
        % 2^png_info.bit_depth

\* the table of the intensity mode
Intensity(bd, v) ==
    CASE bd = 1 -> IF v = 1 THEN 255 ELSE 0
      [] bd = 2 -> <<0, 127, 128, 255>>[v + 1]
      [] bd = 4 -> ((v \div 8) % 2) * 128 + ((v \div 4) % 2) * 64
                   + ((v \div 2) % 2) * 32 + (v % 2) * 31

\* C9: in the intensity mode a 1-bit sample maps to 0xFF or 0x00, a 2-bit
\* sample 00,01,10,11 to 0x00,0x7F,0x80,0xFF, a 4-bit sample to the sum of
\* 0x80,0x40,0x20,0x1F over its set bits, an 8-bit sample to itself, and a
\* 16-bit sample to the first byte of its pair.
IntensityExpansion ==
    (png_out.op = "read_bytes_for_bit_depth_8" /\ png_out.result.ok) =>
        LET out == png_out.result.value
        IN  CASE png_info.bit_depth = 8 -> out = png_buf
              [] png_info.bit_depth = 16 ->
                    /\ Len(out) = (Len(png_buf) + 1) \div 2
                    /\ \A k \in 1..Len(out) : out[k] = png_buf[2 * k - 1]
              [] OTHER ->
                    /\ Len(out) = png_info.height * LineLength
                    /\ \A k \in 0..(Len(out) - 1) :
                          out[k + 1] = Intensity(png_info.bit_depth, SourceSample(k))

\* two lines of two 2-bit grayscale samples, each line padded to a byte
IntensityExpansionWitness ==
    /\ png_out.op = "read_bytes_for_bit_depth_8"
    /\ png_info.color_type = "Grayscale" /\ png_info.bit_depth = 2
    /\ png_info.width = 2 /\ png_info.height = 2
    /\ png_buf = <<27, 228>>
    /\ png_out.result = Ok(<<0, 127, 255, 128>>)

\* C10: in the index mode the i-th sample of a byte at depth 1, 2 or 4 is
\* the integer value of its bits, at depth 8 it is the byte, and at depth 16
\* it is the big-endian integer of the 2-byte pair.
IndexExtraction ==
    (png_out.op = "read_bytes_for_usize" /\ png_out.result.ok) =>
        LET out == png_out.result.value
        IN  /\ Len(out) = png_info.height * LineLength
            /\ \A k \in 0..(Len(out) - 1) :
                  out[k + 1] =
                     CASE png_info.bit_depth = 8 -> png_buf[k + 1]
                       [] png_info.bit_depth = 16 ->
                             png_buf[2 * k + 1] * 256 + png_buf[2 * k + 2]
                       [] OTHER -> SourceSample(k)

\* a 16-bit pair whose two bytes differ
IndexExtractionWitness ==
    /\ png_out.op = "read_bytes_for_usize"
    /\ png_info.color_type = "Indexed" /\ png_info.bit_depth = 16
    /\ png_info.width = 1 /\ png_info.height = 1
    /\ png_buf = <<27, 228>>
    /\ png_out.result = Ok(<<7140>>)

\* the raw index of pixel k (from 0) of an Indexed image, and whether the
\* buffer holds it
RawIndex(k) ==
    CASE png_info.bit_depth = 8 -> png_buf[k + 1]
      [] png_info.bit_depth = 16 -> png_buf[2 * k + 1] * 256 + png_buf[2 * k + 2]
      [] OTHER -> SourceSample(k)
HasIndex(k) ==
    CASE png_info.bit_depth = 8 -> k + 1 <= Len(png_buf)
      [] png_info.bit_depth = 16 -> 2 * k + 2 <= Len(png_buf)
      [] OTHER -> (k \div LineLength) * BytesPerLine + ((k % LineLength) \div PerByte) + 1
                     <= Len(png_buf)
PixelLen == png_info.width * png_info.height
IndexedCall == png_out.op = "buf_to_rgba" /\ png_info.color_type = "Indexed"

\* C11: for an Indexed image with a palette, each of the width*height output
\* pixels is the (R,G,B) of the palette entry at the pixel's raw index, with
\* the alpha of the transparency table at that index, or 255 when there is no
\* table or the index is beyond its length.
IndexedComposition ==
    (IndexedCall /\ png_out.result.ok) =>
        LET out == png_out.result.value
            palette == png_info.palette.value
            trns == png_info.trns
        IN  /\ Len(out) = PixelLen * 4
            /\ \A k \in 0..(PixelLen - 1) :
                  /\ out[4 * k + 1] = palette[3 * RawIndex(k) + 1]
                  /\ out[4 * k + 2] = palette[3 * RawIndex(k) + 2]
                  /\ out[4 * k + 3] = palette[3 * RawIndex(k) + 3]
                  /\ out[4 * k + 4] =
                        IF trns.tag = "Some" /\ RawIndex(k) < Len(trns.value)
                        THEN trns.value[RawIndex(k) + 1] ELSE 255

\* the 2x2 16-bit image with indices 0, 1, 1, 0 and a transparency table
\* that covers index 0 only
IndexedCompositionWitness ==
    /\ IndexedCall
    /\ png_info.bit_depth = 16 /\ png_info.width = 2 /\ png_info.height = 2
    /\ png_info.palette = SomeOf(<<1, 2, 3, 4, 5, 6>>)
    /\ png_info.trns = SomeOf(<<7>>)
    /\ png_buf = <<0, 0, 0, 1, 0, 1, 0, 0>>
    /\ png_out.result = Ok(<<1, 2, 3, 7, 4, 5, 6, 255, 4, 5, 6, 255, 1, 2, 3, 7>>)

\* C12: buf_to_rgba on an Indexed image returns DecodingError, and no pixel
\* buffer, whenever there is no palette, whenever the palette's byte length
\* is not a multiple of 3, and whenever the index of a pixel is not below the
\* number of palette entries.
IndexedPaletteErrors ==
    (/\ IndexedCall
     /\ \/ png_info.palette.tag = "None"
        \/ Len(png_info.palette.value) % 3 # 0
        \/ \E k \in 0..(PixelLen - 1) :
              HasIndex(k) /\ RawIndex(k) >= Len(png_info.palette.value) \div 3)
    => png_out.result = Err("DecodingError")

\* a palette of four bytes, with every index of the image below 1
IndexedPaletteErrorsWitness ==
    /\ IndexedCall
    /\ png_info.palette.tag = "Some" /\ Len(png_info.palette.value) = 4
    /\ PixelLen > 0
    /\ \A k \in 0..(PixelLen - 1) : HasIndex(k) /\ RawIndex(k) = 0
    /\ png_out.result = Err("DecodingError")

\* out is the pixels of bytes, in order, under the mapping of a color type
MapsAs(ct, bytes, out) ==
    CASE ct = "Grayscale" ->
            /\ Len(out) = 4 * Len(bytes)
            /\ \A k \in 1..Len(bytes) :
                  SubSeq(out, 4 * k - 3, 4 * k) = <<bytes[k], bytes[k], bytes[k], 255>>
      [] ct = "GrayscaleAlpha" ->
            /\ Len(out) = 4 * (Len(bytes) \div 2)
            /\ \A k \in 1..(Len(bytes) \div 2) :
                  SubSeq(out, 4 * k - 3, 4 * k) =
                     <<bytes[2 * k - 1], bytes[2 * k - 1], bytes[2 * k - 1], bytes[2 * k]>>
      [] ct = "Rgb" ->
            /\ Len(out) = 4 * (Len(bytes) \div 3)
            /\ \A k \in 1..(Len(bytes) \div 3) :
                  SubSeq(out, 4 * k - 3, 4 * k) =
                     <<bytes[3 * k - 2], bytes[3 * k - 1], bytes[3 * k], 255>>
      [] ct = "Rgba" -> out = bytes
FirstBytes(buf) == [k \in 1..((Len(buf) + 1) \div 2) |-> buf[2 * k - 1]]

\* C13: from the expanded 8-bit samples, a Gray sample v becomes (v,v,v,255),
\* a GrayAlpha pair (g,a) becomes (g,g,g,a), an RGB triple (r,g,b) becomes
\* (r,g,b,255) and RGBA passes through, pixel by pixel in input order; to_rgb
\* applies the Gray mapping to L8 and to the first bytes of L16, and the RGB
\* mapping to RGB24.
NonIndexedComposition ==
    /\ (/\ png_out.op = "buf_to_rgba"
        /\ png_info.color_type # "Indexed"
        /\ png_out.composed.ok) =>
           MapsAs(png_info.color_type,
                  read_bytes_for_bit_depth_8(png_buf, png_info).value,
                  png_out.composed.value)
    /\ (png_out.op = "to_rgb" /\ png_out.pixel_format # "CMYK32") =>
           /\ png_out.result.ok
           /\ CASE png_out.pixel_format = "L8" ->
                      MapsAs("Grayscale", png_buf, png_out.result.value)
                [] png_out.pixel_format = "L16" ->
                      MapsAs("Grayscale", FirstBytes(png_buf), png_out.result.value)
                [] png_out.pixel_format = "RGB24" ->
                      MapsAs("Rgb", png_buf, png_out.result.value)

\* an RGB24 buffer of one pixel and a dangling byte
NonIndexedCompositionWitness ==
    /\ png_out.op = "to_rgb"
    /\ png_out.pixel_format = "RGB24"
    /\ png_buf = <<27, 228, 228, 27>>
    /\ png_out.result = Ok(<<27, 228, 228, 255>>)

\* the bytes that height rows of width * samples complete samples take: a
\* row starts on a byte, and a 16-bit sample is 2 bytes
BytesNeeded ==
    png_info.height *
        (CASE png_info.bit_depth = 8 -> LineLength
           [] png_info.bit_depth = 16 -> 2 * LineLength
           [] OTHER -> BytesPerLine)

\* C20: for every color type, every bit depth and both modes, if the raw
\* input ends before each of the height rows has received width * samples
\* complete samples, buf_to_rgba returns DecodingError and no pixel buffer.
UnderrunIsDecodingError ==
    (png_out.op = "buf_to_rgba" /\ Len(png_buf) < BytesNeeded) =>
        png_out.result = Err("DecodingError")

\* a call of one of the two readers of packed samples, at a depth below 8
PackedCall ==
    /\ png_out.op \in {"read_bytes_for_bit_depth_8", "read_bytes_for_usize"}
    /\ png_info.bit_depth \in {1, 2, 4}
OneRow == [png_info EXCEPT !.height = 1]
RowBytes(r) == SubSeq(png_buf, r * BytesPerLine + 1, (r + 1) * BytesPerLine)
RowAlone(r) ==
    IF png_out.op = "read_bytes_for_usize"
    THEN read_bytes_for_usize(RowBytes(r), OneRow)
    ELSE read_bytes_for_bit_depth_8(RowBytes(r), OneRow)

\* C21: at bit depths 1, 2 and 4, in both modes, every row starts on a byte
\* boundary and yields exactly width * samples samples; the unused trailing
\* bits of the last byte of a row are dropped, so row r of the output is made
\* from the input bytes r*ceil(width*samples*depth/8) up to
\* (r+1)*ceil(width*samples*depth/8) - 1 and from nothing else.
RowByteAlignment ==
    (PackedCall /\ png_out.result.ok) =>
        LET out == png_out.result.value
        IN  /\ Len(out) = png_info.height * LineLength
            /\ \A r \in 0..(png_info.height - 1) :
                  /\ RowAlone(r) = Ok(SubSeq(out, r * LineLength + 1, (r + 1) * LineLength))
                  /\ \A c \in 0..(LineLength - 1) :
                        out[r * LineLength + c + 1] =
                           IF png_out.op = "read_bytes_for_usize"
                           THEN SourceSample(r * LineLength + c)
                           ELSE Intensity(png_info.bit_depth, SourceSample(r * LineLength + c))

\* two rows of two 1-bit samples: the six trailing bits 011011 of the first
\* byte are not samples of the second row
RowByteAlignmentWitness ==
    /\ PackedCall
    /\ png_out.op = "read_bytes_for_bit_depth_8"
    /\ png_info.color_type = "Grayscale" /\ png_info.bit_depth = 1
    /\ png_info.width = 2 /\ png_info.height = 2
    /\ png_buf = <<27, 228>>
    /\ png_out.result = Ok(<<0, 0, 255, 255>>)

====
